---- MODULE Spec2Model ----
(***************************************************************************)
(* Model of the website research tool: WebScraper (web_scraper.py),        *)
(* VectorDatabase (vector_db.py), ResearchAgent (research_agent.py) and    *)
(* the two drivers main.main (main.py) and cli.main (cli.py).              *)
(*                                                                         *)
(* Python strings are TLA+ strings; the HTTP targets, the ChromaDB         *)
(* collection and the hosted assistant service are the environment, and    *)
(* every answer they can give is a nondeterministic choice.                *)
(***************************************************************************)
EXTENDS Integers, Sequences, FiniteSets, TLC

\* ------------------------------------------------------------------ bounds
\* Longest URL list a caller passes to scrape_urls / types into the CLI.
MaxUrls == 2
\* Longest document batch a direct caller hands to the store or the agent.
MaxDocs == 2
\* Number of method calls a direct caller of one component makes.
MaxCalls == 2
\* The polls of one generate_summary call are counted up to this number (the
\* counter stays there; the polling itself is not limited).
MaxPolls == 1

\* ------------------------------------------------------- program constants
\* text[:10000] in scrape_url
ContentLimit == 10000
\* doc['content'][:2000] in generate_summary_from_documents
PromptLimit == 2000

\* Python's None (kept apart from every string the program builds).
None == "<None>"

\* ---------------------------------------------------------------- strings
Min(a, b) == IF a < b THEN a ELSE b

\* s[:n] for n >= 0
Prefix(s, n) == SubSeq(s, 1, Min(Len(s), n))

\* c repeated n times
RECURSIVE Fill(_, _)
Fill(c, n) ==
    IF n = 0 THEN ""
    ELSE LET h == Fill(c, n \div 2)
         IN  IF n % 2 = 0 THEN h \o h ELSE h \o h \o c

\* ------------------------------------------------------------ environment
AI_URL == "https://en.wikipedia.org/wiki/Artificial_intelligence"
ML_URL == "https://en.wikipedia.org/wiki/Machine_learning"
example_urls == <<AI_URL, ML_URL>>
example_query == "What are the key concepts in AI and machine learning?"

URLS == {AI_URL, ML_URL}
Queries == {example_query}

\* Visible text of the pages the targets may serve: a short one, one of
\* PromptLimit + 1 characters, and one longer than ContentLimit.
ShortText == "Test content"
MidText == Fill("m", PromptLimit) \o "Z"
LongText ==
    Fill("a", PromptLimit) \o Fill("b", ContentLimit - PromptLimit) \o Fill("c", PromptLimit)

\* What requests.get can do: raise a transport error, or return a response
\* with a status code, the page's <title> (None when it has none) and the
\* page's whitespace-normalised visible text.
Responses ==
    { [raised |-> "Connection error", status |-> 0,   title |-> None,        text |-> ""],
      [raised |-> None,               status |-> 404, title |-> None,        text |-> ""],
      [raised |-> None,               status |-> 200, title |-> "Test Page", text |-> ShortText],
      [raised |-> None,               status |-> 200, title |-> "Mid Page",  text |-> MidText],
      [raised |-> None,               status |-> 200, title |-> None,        text |-> LongText] }

\* Job statuses the assistant service reports.
Statuses == {"queued", "in_progress", "completed", "failed", "expired"}

\* Sequences over S of length lo..hi
SeqsUpTo(S, lo, hi) == UNION { [1..n -> S] : n \in lo..hi }

\* ------------------------------------------------------------------ state
VARIABLES
    entry,          \* who drives: "main", "cli", or a direct caller of one component
    pc,             \* position of the single thread of control
    envKey,         \* OPENAI_API_KEY in the process environment (None: unset)
    dotenvKey,      \* OPENAI_API_KEY in the .env file (None: absent)
    out,            \* what was printed that the claims speak about
    exc,            \* the exception raised last (None: none)
    calls,          \* method calls a direct caller has made
    \* WebScraper.scrape_urls
    urls, i, results, got, fetches, pauses, scrapeCalls, documents,
    \* VectorDatabase
    collection, storeArg, storeCalls, addCalls, storeReturned,
    \* ResearchAgent
    api_key, client, assistant, agentArg, agentCalls, gsCalls, content, query,
    thread, status, polls, summary, cleanupCalls,
    \* hosted assistant service
    personas, created, deleteRequests, threads, contacted

scraperVars == <<urls, i, results, got, fetches, pauses, scrapeCalls, documents>>
storeVars == <<collection, storeArg, storeCalls, addCalls, storeReturned>>
agentVars == <<api_key, client, assistant, agentArg, agentCalls, gsCalls, content,
               query, thread, status, polls, summary, cleanupCalls>>
remoteVars == <<personas, created, deleteRequests, threads, contacted>>
envVars == <<envKey, dotenvKey>>
vars == <<entry, pc, envKey, dotenvKey, out, exc, calls, scraperVars, storeVars,
          agentVars, remoteVars>>

Pipelines == {"main", "cli"}

\* Where control goes when a component method returns: the next statement of
\* the driver, or back to the direct caller.
Return(next) == IF entry \in Pipelines THEN next ELSE "idle"

\* Where control goes when a statement of the try block raises: the except
\* clause of main / cli.main, or back to the direct caller.
Raise == IF entry \in Pipelines THEN "except" ELSE "idle"

\* ------------------------------------------------------------- WebScraper
\* str(e) of requests' HTTPError raised by raise_for_status
HTTPErrorText(resp, url) ==
    ToString(resp.status) \o " Client Error: Not Found for url: " \o url

\* Whether the try block of scrape_url raises on this response
Fails(resp) == resp.raised # None \/ resp.status >= 400

\* str(e) in the except clause of scrape_url
FailureText(resp, url) ==
    IF resp.raised # None THEN resp.raised ELSE HTTPErrorText(resp, url)

\* scrape_url whose except clause forgets the "Error" title
scrape_url_untitled(url, resp) ==
    IF Fails(resp)
    THEN [url |-> url, title |-> url,
          content |-> "Failed to scrape: " \o FailureText(resp, url)]
    ELSE [url |-> url,
          title |-> IF resp.title # None THEN resp.title ELSE url,
          content |-> Prefix(resp.text, ContentLimit)]

scrape_url(url, resp) ==
    IF Fails(resp)
    THEN [url |-> url, title |-> "Error",
          content |-> "Failed to scrape: " \o FailureText(resp, url)]
    ELSE [url |-> url,
          title |-> IF resp.title # None THEN resp.title ELSE url,
          content |-> Prefix(resp.text, ContentLimit)]

\* results = []; the for loop is entered
scrape_urls_enter(us) ==
    /\ urls' = us
    /\ i' = 0
    /\ results' = <<>>
    /\ got' = <<>>
    /\ fetches' = 0
    /\ pauses' = 0
    /\ scrapeCalls' = scrapeCalls + 1
    /\ documents' = <<>>

\* The loop body that drops a failed fetch instead of appending its document
scrape_urls_iter_skips_failed ==
    /\ pc = "scrape_loop"
    /\ i < Len(urls)
    /\ \E resp \in Responses :
          /\ results' = IF Fails(resp) THEN results
                        ELSE Append(results, scrape_url(urls[i + 1], resp))
          /\ got' = IF Fails(resp) THEN got ELSE Append(got, resp)
    /\ fetches' = fetches + 1
    /\ pauses' = IF i < Len(urls) - 1 THEN pauses + 1 ELSE pauses
    /\ i' = i + 1
    /\ UNCHANGED <<entry, pc, envVars, out, exc, calls, urls, scrapeCalls, documents,
                   storeVars, agentVars, remoteVars>>

\* The loop body that sleeps after every fetch, the last one too
scrape_urls_iter_always_sleeps ==
    /\ pc = "scrape_loop"
    /\ i < Len(urls)
    /\ \E resp \in Responses :
          /\ results' = Append(results, scrape_url(urls[i + 1], resp))
          /\ got' = Append(got, resp)
    /\ fetches' = fetches + 1
    /\ pauses' = pauses + 1
    /\ i' = i + 1
    /\ UNCHANGED <<entry, pc, envVars, out, exc, calls, urls, scrapeCalls, documents,
                   storeVars, agentVars, remoteVars>>

\* One iteration of the for loop: scrape_url, append, sleep unless last.
scrape_urls_iter ==
    /\ pc = "scrape_loop"
    /\ i < Len(urls)
    /\ \E resp \in Responses :
          /\ results' = Append(results, scrape_url(urls[i + 1], resp))
          /\ got' = Append(got, resp)
    /\ fetches' = fetches + 1
    /\ pauses' = IF i < Len(urls) - 1 THEN pauses + 1 ELSE pauses
    /\ i' = i + 1
    /\ UNCHANGED <<entry, pc, envVars, out, exc, calls, urls, scrapeCalls, documents,
                   storeVars, agentVars, remoteVars>>

\* scrape_urls returning to a driver that summarizes before it stores
scrape_urls_return_to_step3 ==
    /\ pc = "scrape_loop"
    /\ i = Len(urls)
    /\ documents' = results
    /\ pc' = Return("step3")
    /\ UNCHANGED <<entry, envVars, out, exc, calls, urls, i, results, got, fetches,
                   pauses, scrapeCalls, storeVars, agentVars, remoteVars>>

\* return results
scrape_urls_return ==
    /\ pc = "scrape_loop"
    /\ i = Len(urls)
    /\ documents' = results
    /\ pc' = Return("step2")
    /\ UNCHANGED <<entry, envVars, out, exc, calls, urls, i, results, got, fetches,
                   pauses, scrapeCalls, storeVars, agentVars, remoteVars>>

\* A direct caller (as TestWebScraper does) calls scrape_urls on any list.
call_scrape_urls ==
    /\ entry = "scraper"
    /\ pc = "idle"
    /\ calls < MaxCalls
    /\ calls' = calls + 1
    /\ \E us \in SeqsUpTo(URLS, 0, MaxUrls) : scrape_urls_enter(us)
    /\ pc' = "scrape_loop"
    /\ UNCHANGED <<entry, envVars, out, exc, storeVars, agentVars, remoteVars>>

\* --------------------------------------------------------- VectorDatabase
\* Documents a direct caller may hand over: what scrape_url returns for a
\* short and for a long page of each URL (so that two documents can share an
\* id and differ in content).
DocPool ==
    { scrape_url(u, r) : u \in URLS, r \in { x \in Responses : x.text \in {ShortText, LongText} } }

Ids(docs) == { docs[k].url : k \in DOMAIN docs }

\* Whether two documents of the batch carry the same id.
HasDuplicateIds(docs) ==
    \E k, l \in DOMAIN docs : k # l /\ docs[k].url = docs[l].url

\* The first document of the batch with this id.
FirstWithId(docs, id) ==
    docs[CHOOSE k \in DOMAIN docs :
            /\ docs[k].url = id
            /\ \A l \in DOMAIN docs : docs[l].url = id => k <= l]

\* ChromaDB's Collection.add (an insert, not Collection.upsert) when it
\* succeeds: records are inserted under the ids the collection does not hold
\* yet; a record whose id is already held is left as it is.
CollectionAdd(c, docs) ==
    [id \in DOMAIN c \cup Ids(docs) |->
        IF id \in DOMAIN c THEN c[id]
        ELSE LET d == FirstWithId(docs, id)
             IN  [document |-> d.content,
                  metadata |-> [title |-> d.title, url |-> d.url]]]

\* add_documents that swallows the failure of Collection.add
add_documents_swallows(docs, next) ==
    /\ storeArg' = docs
    /\ storeCalls' = storeCalls + 1
    /\ IF docs = <<>>
       THEN /\ pc' = next
            /\ storeReturned' = TRUE
            /\ UNCHANGED <<collection, addCalls, exc>>
       ELSE /\ addCalls' = addCalls + 1
            /\ \/ /\ exc' = "chromadb: add failed"
                  /\ pc' = next
                  /\ storeReturned' = FALSE
                  /\ UNCHANGED collection
               \/ /\ ~HasDuplicateIds(docs)
                  /\ collection' = CollectionAdd(collection, docs)
                  /\ pc' = next
                  /\ storeReturned' = TRUE
                  /\ UNCHANGED exc

\* add_documents without the `if not documents` guard: the empty lists go to
\* Collection.add, which rejects them
add_documents_unguarded(docs, next) ==
    /\ storeArg' = docs
    /\ storeCalls' = storeCalls + 1
    /\ addCalls' = addCalls + 1
    /\ \/ /\ exc' = "chromadb: add failed"
          /\ pc' = Raise
          /\ storeReturned' = FALSE
          /\ UNCHANGED collection
       \/ /\ docs # <<>>
          /\ ~HasDuplicateIds(docs)
          /\ collection' = CollectionAdd(collection, docs)
          /\ pc' = next
          /\ storeReturned' = TRUE
          /\ UNCHANGED exc

\* VectorDatabase.add_documents; `next` is where the caller continues.
add_documents(docs, next) ==
    /\ storeArg' = docs
    /\ storeCalls' = storeCalls + 1
    /\ IF docs = <<>>
       THEN \* "No documents to add"
            /\ pc' = next
            /\ storeReturned' = TRUE
            /\ UNCHANGED <<collection, addCalls, exc>>
       ELSE /\ addCalls' = addCalls + 1
            /\ \/ \* Collection.add raises: duplicate ids in the batch, an id
                  \* already held (older ChromaDB), the embedding function fails
                  /\ exc' = "chromadb: add failed"
                  /\ pc' = Raise
                  /\ storeReturned' = FALSE
                  /\ UNCHANGED collection
               \/ /\ ~HasDuplicateIds(docs)
                  /\ collection' = CollectionAdd(collection, docs)
                  /\ pc' = next
                  /\ storeReturned' = TRUE
                  /\ UNCHANGED exc

\* VectorDatabase.reset_collection: delete and recreate the collection.
reset_collection ==
    /\ entry = "store"
    /\ pc = "idle"
    /\ calls < MaxCalls
    /\ calls' = calls + 1
    /\ collection' = <<>>
    /\ storeArg' = <<>>
    /\ storeReturned' = FALSE
    /\ UNCHANGED <<entry, pc, envVars, out, exc, scraperVars, storeCalls, addCalls,
                   agentVars, remoteVars>>

\* A direct caller (as TestVectorDatabase does) adds any batch.
call_add_documents ==
    /\ entry = "store"
    /\ pc = "idle"
    /\ calls < MaxCalls
    /\ calls' = calls + 1
    /\ \E docs \in SeqsUpTo(DocPool, 0, MaxDocs) : add_documents(docs, "idle")
    /\ UNCHANGED <<entry, envVars, out, scraperVars, agentVars, remoteVars>>

\* ---------------------------------------------------------- ResearchAgent
\* Documents a direct caller hands to the agent: a page longer than the cut
\* of the prompt and a short one.
AgentDocPool ==
    { scrape_url(AI_URL, [raised |-> None, status |-> 200, title |-> None, text |-> LongText]),
      scrape_url(ML_URL, [raised |-> None, status |-> 200, title |-> "Test Page",
                          text |-> ShortText]) }

PersonaId(n) == "asst_" \o ToString(n)

\* The constructor that builds the client and registers the persona before
\* it looks at the key
ResearchAgent_init_client_first(arg, env, ok, failed) ==
    LET key == IF arg # None THEN arg ELSE env
    IN  /\ api_key' = key
        /\ client' = TRUE
        /\ contacted' = TRUE
        /\ exc' = "openai: request failed"
        /\ pc' = failed
        /\ UNCHANGED <<assistant, personas, created, deleteRequests, threads>>

\* ResearchAgent.__init__(api_key=arg); `ok` and `failed` are where the
\* constructor's caller continues when it returns and when it raises.
ResearchAgent_init(arg, env, ok, failed) ==
    LET key == IF arg # None THEN arg ELSE env
    IN  /\ api_key' = key
        /\ IF key = None
           THEN /\ exc' = "OpenAI API key not found. Set OPENAI_API_KEY environment variable."
                /\ pc' = failed
                /\ UNCHANGED <<client, assistant, remoteVars>>
           ELSE /\ client' = TRUE
                /\ contacted' = TRUE
                /\ \/ \* _create_assistant: assistants.create answers
                      /\ assistant' = PersonaId(created + 1)
                      /\ personas' = personas \cup {PersonaId(created + 1)}
                      /\ created' = created + 1
                      /\ pc' = ok
                      /\ UNCHANGED exc
                   \/ \* assistants.create raises
                      /\ exc' = "openai: request failed"
                      /\ pc' = failed
                      /\ UNCHANGED <<assistant, personas, created>>
                /\ UNCHANGED <<deleteRequests, threads>>

\* "\n\n".join(blocks)
RECURSIVE Join(_, _)
Join(blocks, sep) ==
    IF blocks = <<>> THEN ""
    ELSE IF Len(blocks) = 1 THEN blocks[1]
    ELSE blocks[1] \o sep \o Join(Tail(blocks), sep)

\* The block without the cut of the content
SourceBlock_untruncated(doc) ==
    "Source: " \o doc.title \o " (" \o doc.url \o ")\n" \o doc.content

\* f"Source: {doc['title']} ({doc['url']})\n{doc['content'][:2000]}"
SourceBlock(doc) ==
    "Source: " \o doc.title \o " (" \o doc.url \o ")\n" \o Prefix(doc.content, PromptLimit)

combined_content(docs) ==
    Join([k \in DOMAIN docs |-> SourceBlock(docs[k])], "\n\n")

\* The prompt of generate_summary
Prompt(text, user_query) ==
    "Based on the following research query: \"" \o user_query \o "\"\n\n"
    \o "Please analyze and summarize the following content:\n\n"
    \o text
    \o "\n\nProvide a comprehensive summary that addresses the research query."

\* generate_summary_from_documents(docs, q): builds the combined content and
\* enters generate_summary.
generate_summary_from_documents(docs, q) ==
    /\ agentArg' = docs
    /\ agentCalls' = agentCalls + 1
    /\ query' = q
    /\ content' = combined_content(docs)
    /\ gsCalls' = gsCalls + 1
    /\ thread' = 0
    /\ status' = None
    /\ polls' = 0
    /\ summary' = None
    /\ pc' = "gs_thread"

\* generate_summary that keeps the first thread and uses it again
gs_thread_create_reuses ==
    /\ pc = "gs_thread"
    /\ contacted' = TRUE
    /\ \/ /\ threads' = IF threads = <<>>
                        THEN Append(threads, [messages |-> <<>>, runs |-> <<>>])
                        ELSE threads
          /\ thread' = 1
          /\ pc' = "gs_message"
          /\ UNCHANGED exc
       \/ /\ exc' = "openai: request failed"
          /\ pc' = Raise
          /\ UNCHANGED <<threads, thread>>
    /\ UNCHANGED <<entry, envVars, out, calls, scraperVars, storeVars, api_key, client,
                   assistant, agentArg, agentCalls, gsCalls, polls, content, query, status,
                   summary, cleanupCalls, personas, created, deleteRequests>>

\* generate_summary: thread = client.beta.threads.create()
gs_thread_create ==
    /\ pc = "gs_thread"
    /\ contacted' = TRUE
    /\ \/ /\ threads' = Append(threads, [messages |-> <<>>, runs |-> <<>>])
          /\ thread' = Len(threads) + 1
          /\ pc' = "gs_message"
          /\ UNCHANGED exc
       \/ /\ exc' = "openai: request failed"
          /\ pc' = Raise
          /\ UNCHANGED <<threads, thread>>
    /\ UNCHANGED <<entry, envVars, out, calls, scraperVars, storeVars, api_key, client,
                   assistant, agentArg, agentCalls, gsCalls, polls, content, query, status,
                   summary, cleanupCalls, personas, created, deleteRequests>>

\* generate_summary: client.beta.threads.messages.create(role="user", ...)
gs_message_create ==
    /\ pc = "gs_message"
    /\ \/ /\ threads' = [threads EXCEPT ![thread].messages =
                            Append(@, [role |-> "user", text |-> Prompt(content, query)])]
          /\ pc' = "gs_run"
          /\ UNCHANGED exc
       \/ /\ exc' = "openai: request failed"
          /\ pc' = Raise
          /\ UNCHANGED threads
    /\ UNCHANGED <<entry, envVars, out, calls, scraperVars, storeVars, agentVars,
                   personas, created, deleteRequests, contacted>>

\* generate_summary: run = client.beta.threads.runs.create(...)
gs_run_create ==
    /\ pc = "gs_run"
    /\ \/ /\ assistant \in personas
          /\ threads' = [threads EXCEPT ![thread].runs = Append(@, assistant)]
          /\ \E st \in Statuses : status' = st
          /\ pc' = "gs_wait"
          /\ UNCHANGED exc
       \/ \* the request fails, as it does when the persona no longer exists
          /\ exc' = "openai: request failed"
          /\ pc' = Raise
          /\ UNCHANGED <<threads, status>>
    /\ UNCHANGED <<entry, envVars, out, calls, scraperVars, storeVars, api_key, client,
                   assistant, agentArg, agentCalls, gsCalls, polls, content, query, thread,
                   summary, cleanupCalls, personas, created, deleteRequests, contacted>>

Waiting(st) == st \in {"queued", "in_progress"}

\* The loop with an attempt limit: after MaxPolls polls of a job still
\* waiting it gives up and returns
gs_poll_gives_up ==
    /\ pc = "gs_wait"
    /\ Waiting(status)
    /\ IF polls < MaxPolls
       THEN /\ polls' = polls + 1
            /\ \/ /\ \E st \in Statuses : status' = st
                  /\ UNCHANGED <<pc, exc>>
               \/ /\ exc' = "openai: request failed"
                  /\ pc' = Raise
                  /\ UNCHANGED status
            /\ UNCHANGED summary
       ELSE /\ summary' = "Error: Assistant run status is " \o status
            /\ pc' = Return("print_summary")
            /\ UNCHANGED <<polls, status, exc>>
    /\ UNCHANGED <<entry, envVars, out, calls, scraperVars, storeVars, api_key, client,
                   assistant, agentArg, agentCalls, gsCalls, content, query, thread,
                   cleanupCalls, remoteVars>>

\* generate_summary: one turn of the while loop: sleep(1), runs.retrieve
gs_poll ==
    /\ pc = "gs_wait"
    /\ Waiting(status)
    /\ polls' = Min(polls + 1, MaxPolls)
    /\ \/ /\ \E st \in Statuses : status' = st
          /\ UNCHANGED <<pc, exc>>
       \/ /\ exc' = "openai: request failed"
          /\ pc' = Raise
          /\ UNCHANGED status
    /\ UNCHANGED <<entry, envVars, out, calls, scraperVars, storeVars, api_key, client,
                   assistant, agentArg, agentCalls, gsCalls, content, query, thread,
                   summary, cleanupCalls, remoteVars>>

\* What the assistant may have written to the thread when the job is over,
\* oldest first.
Replies == { <<>>, <<"Summary A">>, <<"Summary A", "Summary B">> }

RECURSIVE Reverse(_)
Reverse(sq) == IF sq = <<>> THEN <<>> ELSE Append(Reverse(Tail(sq)), Head(sq))

\* messages.list(thread_id).data: the thread's messages, newest first
MessageList(th) == Reverse(th.messages)

\* The loop that keeps the last assistant message of the list, not the first
FirstAssistantText_last(data) ==
    IF \E k \in DOMAIN data : data[k].role = "assistant"
    THEN data[CHOOSE k \in DOMAIN data :
                /\ data[k].role = "assistant"
                /\ \A l \in DOMAIN data : data[l].role = "assistant" => k >= l].text
    ELSE None

\* The for loop over messages.data: the first message whose role is
\* "assistant", or None when the loop ends without returning.
FirstAssistantText(data) ==
    IF \E k \in DOMAIN data : data[k].role = "assistant"
    THEN data[CHOOSE k \in DOMAIN data :
                /\ data[k].role = "assistant"
                /\ \A l \in DOMAIN data : data[l].role = "assistant" => k <= l].text
    ELSE None

ErrorText(st) == "Error: Assistant run status is " \o st

\* generate_summary after the while loop: the value returned
gs_finish ==
    /\ pc = "gs_wait"
    /\ ~Waiting(status)
    /\ IF status = "completed"
       THEN \/ \E rs \in Replies :
                 LET th == [threads[thread] EXCEPT !.messages =
                              @ \o [k \in DOMAIN rs |-> [role |-> "assistant", text |-> rs[k]]]]
                     first == FirstAssistantText(MessageList(th))
                 IN  /\ threads' = [threads EXCEPT ![thread] = th]
                     /\ summary' = IF first # None THEN first ELSE ErrorText(status)
                     /\ pc' = Return("print_summary")
                     /\ UNCHANGED exc
            \/ \* messages.list raises
               /\ exc' = "openai: request failed"
               /\ pc' = Raise
               /\ UNCHANGED <<threads, summary>>
       ELSE /\ summary' = ErrorText(status)
            /\ pc' = Return("print_summary")
            /\ UNCHANGED <<threads, exc>>
    /\ UNCHANGED <<entry, envVars, out, calls, scraperVars, storeVars, api_key, client,
                   assistant, agentArg, agentCalls, gsCalls, polls, content, query, thread,
                   status, cleanupCalls, personas, created, deleteRequests, contacted>>

\* ResearchAgent.cleanup; `next` and `failed` are where the caller continues
\* when it returns and when assistants.delete raises.
cleanup(next, failed) ==
    /\ cleanupCalls' = cleanupCalls + 1
    /\ IF assistant # None
       THEN /\ deleteRequests' = deleteRequests + 1
            /\ contacted' = TRUE
            /\ \/ /\ assistant \in personas
                  /\ personas' = personas \ {assistant}
                  /\ pc' = next
                  /\ UNCHANGED exc
               \/ \* the request fails, as it does when the persona is gone
                  /\ exc' = "openai: request failed"
                  /\ pc' = failed
                  /\ UNCHANGED personas
       ELSE /\ pc' = next
            /\ UNCHANGED <<deleteRequests, contacted, personas, exc>>
    /\ UNCHANGED <<api_key, client, assistant, agentArg, agentCalls, gsCalls, polls, content,
                   query, thread, status, summary, created, threads>>

\* A direct caller (as TestResearchAgent does) constructs an agent, with or
\* without an explicit key.
call_ResearchAgent ==
    /\ entry = "agent"
    /\ pc = "new"
    /\ \E arg \in {None, "sk-arg"} : ResearchAgent_init(arg, envKey, "idle", "done")
    /\ UNCHANGED <<entry, envVars, out, calls, scraperVars, storeVars, agentArg,
                   agentCalls, gsCalls, polls, content, query, thread, status, summary,
                   cleanupCalls>>

call_generate_summary_from_documents ==
    /\ entry = "agent"
    /\ pc = "idle"
    /\ calls < MaxCalls
    /\ calls' = calls + 1
    /\ \E q \in Queries : generate_summary_from_documents(documents, q)
    /\ UNCHANGED <<entry, envVars, out, exc, scraperVars, storeVars, api_key, client,
                   assistant, cleanupCalls, remoteVars>>

call_cleanup ==
    /\ entry = "agent"
    /\ pc = "idle"
    /\ calls < MaxCalls
    /\ calls' = calls + 1
    /\ cleanup("idle", "idle")
    /\ UNCHANGED <<entry, envVars, out, scraperVars, storeVars>>

\* ------------------------------------------------------------ the drivers
KeyMissing ==
    "ERROR: OPENAI_API_KEY environment variable not set!"

\* load_dotenv(): a variable of the .env file is set unless the environment
\* already has it.
load_dotenv(env) == IF env = None THEN dotenvKey ELSE env

\* main.main up to the construction of the tool: the key check, the example
\* URLs and query.
main_start ==
    /\ entry = "main"
    /\ pc = "start"
    /\ IF envKey = None
       THEN /\ out' = Append(out, KeyMissing)
            /\ pc' = "done"
            /\ UNCHANGED <<urls, query>>
       ELSE /\ urls' = example_urls
            /\ query' = example_query
            /\ pc' = "construct"
            /\ UNCHANGED out
    /\ UNCHANGED <<entry, envVars, exc, calls, i, results, got, fetches, pauses,
                   scrapeCalls, documents, storeVars, api_key, client, assistant,
                   agentArg, agentCalls, gsCalls, polls, content, thread, status, summary,
                   cleanupCalls, remoteVars>>

\* tool = ResearchTool(): load_dotenv(), WebScraper(), VectorDatabase(),
\* ResearchAgent(). It stands before the try block: when it raises, main ends
\* with the exception.
main_construct ==
    /\ entry = "main"
    /\ pc = "construct"
    /\ envKey' = load_dotenv(envKey)
    /\ ResearchAgent_init(None, load_dotenv(envKey), "step1", "crashed")
    /\ UNCHANGED <<entry, dotenvKey, out, calls, scraperVars, storeVars, agentArg,
                   agentCalls, gsCalls, polls, content, query, thread, status, summary,
                   cleanupCalls>>

\* cli.main up to get_user_input: load_dotenv() and the key check.
cli_start ==
    /\ entry = "cli"
    /\ pc = "start"
    /\ envKey' = load_dotenv(envKey)
    /\ IF load_dotenv(envKey) = None
       THEN /\ out' = Append(out, KeyMissing)
            /\ pc' = "done"
       ELSE /\ pc' = "input"
            /\ UNCHANGED out
    /\ UNCHANGED <<entry, dotenvKey, exc, calls, scraperVars, storeVars, agentVars,
                   remoteVars>>

\* get_user_input and the check of what it returned.
get_user_input ==
    /\ entry = "cli"
    /\ pc = "input"
    /\ \E q \in Queries \cup {""}, us \in SeqsUpTo(URLS, 0, MaxUrls) :
          IF q = ""
          THEN /\ out' = Append(out, "Error: Query cannot be empty")
               /\ pc' = "done"
               /\ UNCHANGED <<urls, query>>
          ELSE IF us = <<>>
          THEN /\ out' = Append(out, "Error: At least one URL is required")
               /\ pc' = "done"
               /\ UNCHANGED <<urls, query>>
          ELSE /\ urls' = us
               /\ query' = q
               /\ pc' = "construct"
               /\ UNCHANGED out
    /\ UNCHANGED <<entry, envVars, exc, calls, i, results, got, fetches, pauses,
                   scrapeCalls, documents, storeVars, api_key, client, assistant,
                   agentArg, agentCalls, gsCalls, polls, content, thread, status, summary,
                   cleanupCalls, remoteVars>>

\* cli.main: WebScraper(), VectorDatabase(), ResearchAgent(), before the try
\* block.
cli_construct ==
    /\ entry = "cli"
    /\ pc = "construct"
    /\ ResearchAgent_init(None, envKey, "step1", "crashed")
    /\ UNCHANGED <<entry, envVars, out, calls, scraperVars, storeVars, agentArg,
                   agentCalls, gsCalls, polls, content, query, thread, status, summary,
                   cleanupCalls>>

\* STEP 1: documents = scraper.scrape_urls(urls)
step1_scrape ==
    /\ pc = "step1"
    /\ scrape_urls_enter(urls)
    /\ pc' = "scrape_loop"
    /\ UNCHANGED <<entry, envVars, out, exc, calls, storeVars, agentVars, remoteVars>>

\* STEP 2: vector_db.add_documents(documents)
step2_store ==
    /\ pc = "step2"
    /\ add_documents(documents, "step3")
    /\ UNCHANGED <<entry, envVars, out, calls, scraperVars, agentVars, remoteVars>>

\* STEP 3: summary = agent.generate_summary_from_documents(documents, query)
step3_summarize ==
    /\ pc = "step3"
    /\ generate_summary_from_documents(documents, query)
    /\ UNCHANGED <<entry, envVars, out, exc, calls, scraperVars, storeVars, api_key,
                   client, assistant, cleanupCalls, remoteVars>>

\* The end of the try block: the summary is printed.
print_summary ==
    /\ pc = "print_summary"
    /\ out' = Append(out, summary)
    /\ pc' = "finally"
    /\ UNCHANGED <<entry, envVars, exc, calls, scraperVars, storeVars, agentVars,
                   remoteVars>>

\* A handler after which the driver returns without a finally clause
except_clause_returns ==
    /\ pc = "except"
    /\ out' = Append(out, "Error during research: " \o exc)
    /\ pc' = "done"
    /\ UNCHANGED <<entry, envVars, exc, calls, scraperVars, storeVars, agentVars,
                   remoteVars>>

\* except Exception as e: print(f"\nError during research: {str(e)}")
except_clause ==
    /\ pc = "except"
    /\ out' = Append(out, "Error during research: " \o exc)
    /\ pc' = "finally"
    /\ UNCHANGED <<entry, envVars, exc, calls, scraperVars, storeVars, agentVars,
                   remoteVars>>

\* finally: tool.cleanup() / agent.cleanup()
finally_clause ==
    /\ pc = "finally"
    /\ cleanup("done", "crashed")
    /\ UNCHANGED <<entry, envVars, out, calls, scraperVars, storeVars>>

\* ------------------------------------------------------------------ system
Init ==
    /\ entry \in {"main", "cli", "scraper", "store", "agent"}
    /\ pc = IF entry \in Pipelines THEN "start"
            ELSE IF entry = "agent" THEN "new" ELSE "idle"
    /\ envKey \in IF entry \in Pipelines \cup {"agent"} THEN {None, "sk-env"} ELSE {None}
    /\ dotenvKey \in IF entry \in Pipelines THEN {None, "sk-dotenv"} ELSE {None}
    /\ out = <<>>
    /\ exc = None
    /\ calls = 0
    /\ urls = <<>>
    /\ i = 0
    /\ results = <<>>
    /\ got = <<>>
    /\ fetches = 0
    /\ pauses = 0
    /\ scrapeCalls = 0
    /\ documents \in IF entry = "agent" THEN SeqsUpTo(AgentDocPool, 0, MaxDocs) ELSE {<<>>}
    /\ collection = <<>>
    /\ storeArg = <<>>
    /\ storeCalls = 0
    /\ addCalls = 0
    /\ storeReturned = FALSE
    /\ api_key = None
    /\ client = FALSE
    /\ assistant = None
    /\ agentArg = <<>>
    /\ agentCalls = 0
    /\ gsCalls = 0
    /\ content = ""
    /\ query = ""
    /\ thread = 0
    /\ status = None
    /\ polls = 0
    /\ summary = None
    /\ cleanupCalls = 0
    /\ personas = {}
    /\ created = 0
    /\ deleteRequests = 0
    /\ threads = <<>>
    /\ contacted = FALSE

Next ==
    \/ main_start
    \/ main_construct
    \/ cli_start
    \/ get_user_input
    \/ cli_construct
    \/ step1_scrape
    \/ scrape_urls_iter
    \/ scrape_urls_return
    \/ step2_store
    \/ step3_summarize
    \/ gs_thread_create
    \/ gs_message_create
    \/ gs_run_create
    \/ gs_poll
    \/ gs_finish
    \/ print_summary
    \/ except_clause
    \/ finally_clause
    \/ call_scrape_urls
    \/ call_add_documents
    \/ reset_collection
    \/ call_ResearchAgent
    \/ call_generate_summary_from_documents
    \/ call_cleanup

Spec == Init /\ [][Next]_vars

\* One Agent and its direct caller alone.
InitAgent == entry = "agent" /\ Init

NextAgent ==
    \/ call_ResearchAgent
    \/ call_generate_summary_from_documents
    \/ call_cleanup
    \/ gs_thread_create
    \/ gs_message_create
    \/ gs_run_create
    \/ gs_poll
    \/ gs_finish

\* The single thread of control does not stop inside generate_summary: the
\* while loop keeps polling and the statements after it are executed.
SpecAgentLive ==
    InitAgent /\ [][NextAgent]_vars /\ WF_vars(gs_poll) /\ WF_vars(gs_finish)

\* ------------------------------------------------------------------ claims
Ended == pc \in {"done", "crashed"}

\* The run of the three stages has begun (the try block was entered).
RunStarted == entry \in Pipelines /\ scrapeCalls > 0

\* The three ways a run goes.
StoreRaised == storeCalls > 0 /\ ~storeReturned
AgentRaised ==
    agentCalls > 0 /\ summary = None /\ pc \in {"except", "finally", "done", "crashed"}
Succeeded == summary # None

\* C1: in a run of main.main or cli.main, cleanup is not invoked before the
\* three stages are over, never more than once, and exactly once by the time
\* the run has returned or propagated, whichever stage raised or none.
C1_CleanupExactlyOnce ==
    entry \in Pipelines =>
        /\ cleanupCalls <= 1
        /\ ~Ended => cleanupCalls = 0
        /\ (Ended /\ RunStarted) => cleanupCalls = 1
        /\ (Ended /\ (Succeeded \/ StoreRaised \/ AgentRaised)) => cleanupCalls = 1

C1_Witness ==
    /\ entry = "main"
    /\ pc = "done"
    /\ AgentRaised
    /\ ~StoreRaised
    /\ cleanupCalls = 1

\* C2 (as claimed): once the persona an Agent created has been deleted, no
\* step issues a further delete request.
C2_CleanupIdempotent ==
    [][(created > 0 /\ personas = {}) => deleteRequests' = deleteRequests]_vars

\* C3: while scrape_urls runs nothing is raised, and every URL whose GET
\* failed has a document with that URL, the title "Error" and a content that
\* begins with "Failed" and ends with the description of the failure.
C3_Description(k) ==
    IF got[k].raised # None THEN got[k].raised
    ELSE ToString(got[k].status) \o " Client Error: Not Found for url: " \o urls[k]

C3_FailedFetchGivesErrorDocument ==
    /\ pc = "scrape_loop" => exc = None
    /\ Len(got) = Len(results)
    /\ \A k \in DOMAIN results :
          (got[k].raised # None \/ got[k].status >= 400) =>
             LET c == results[k].content
                 d == C3_Description(k)
             IN  /\ results[k].url = urls[k]
                 /\ results[k].title = "Error"
                 /\ Len(c) >= Len("Failed") + Len(d)
                 /\ SubSeq(c, 1, Len("Failed")) = "Failed"
                 /\ SubSeq(c, Len(c) - Len(d) + 1, Len(c)) = d

C3_Witness ==
    /\ Len(results) = 2
    /\ got[1].status = 404
    /\ got[2].raised = "Connection error"
    /\ results[1].title = "Error"
    /\ results[2].title = "Error"

\* C4 (as claimed): when add_documents has returned, every document of the
\* batch is in the collection under its id with the content just added.
C4_LastWriteWins ==
    (storeReturned /\ storeArg # <<>>) =>
        \A k \in DOMAIN storeArg :
            /\ storeArg[k].url \in DOMAIN collection
            /\ collection[storeArg[k].url].document = storeArg[k].content

\* generate_summary has returned a value.
Returned == summary # None

\* The message list of the current thread, newest first, as messages.list
\* gives it.
C5_Data == IF thread = 0 THEN <<>> ELSE MessageList(threads[thread])

\* data[k] is the first assistant-authored message of the list.
C5_IsFirstAssistant(data, k) ==
    /\ data[k].role = "assistant"
    /\ \A l \in 1..(k - 1) : data[l].role # "assistant"

\* C5 (as claimed): a returned value is, for the final status "completed",
\* the text of the first assistant-authored message of the thread's list, and
\* for any other final status the diagnostic string with that status.
C5_ReturnsFirstAssistantOrDiagnostic ==
    Returned =>
        /\ ~Waiting(status)
        /\ IF status = "completed"
           THEN \E k \in DOMAIN C5_Data :
                   C5_IsFirstAssistant(C5_Data, k) /\ summary = C5_Data[k].text
           ELSE summary = "Error: Assistant run status is " \o status

\* C5 (amended): a returned value is the text of the first assistant-authored
\* message of the list when the final status is "completed" and the list holds
\* such a message; otherwise, also for "completed" with no assistant-authored
\* message, it is the diagnostic string with the final status.
C5_Amended ==
    Returned =>
        /\ ~Waiting(status)
        /\ IF status = "completed" /\ \E k \in DOMAIN C5_Data : C5_Data[k].role = "assistant"
           THEN \E k \in DOMAIN C5_Data :
                   C5_IsFirstAssistant(C5_Data, k) /\ summary = C5_Data[k].text
           ELSE summary = "Error: Assistant run status is " \o status

C5_Witness ==
    /\ Returned
    /\ status = "completed"
    /\ Len(C5_Data) = 3
    /\ C5_Data[1].role = "assistant"
    /\ C5_Data[2].role = "assistant"
    /\ summary = C5_Data[1].text
    /\ summary # C5_Data[2].text

\* C6: in a run of main.main or cli.main the store is called only when every
\* URL has been fetched and scrape_urls has returned, the agent only when
\* add_documents has returned, no thread exists before the agent is called,
\* and both receive the whole list scrape_urls returned.
C6_StagesInOrder ==
    entry \in Pipelines =>
        /\ fetches > 0 => scrapeCalls = 1
        /\ fetches < Len(urls) => storeCalls = 0 /\ agentCalls = 0
        /\ storeCalls > 0 =>
              /\ pc # "scrape_loop"
              /\ fetches = Len(urls)
              /\ Len(documents) = Len(urls)
              /\ documents = results
              /\ storeArg = documents
        /\ agentCalls > 0 =>
              /\ storeCalls = 1
              /\ storeReturned
              /\ agentArg = documents
              /\ agentArg = storeArg
        /\ threads # <<>> => agentCalls > 0

C6_Witness ==
    /\ entry = "cli"
    /\ pc = "gs_thread"
    /\ agentCalls = 1
    /\ Len(urls) = 2
    /\ fetches = 2
    /\ agentArg = results

\* C7: in a run of main.main or cli.main no stage is called twice; when
\* add_documents raised, the agent is never called, no thread exists and no
\* summary is returned or printed; and a failure of either stage is printed
\* by the driver before it ends.
C7_Reported(text) == \E k \in DOMAIN out : out[k] = "Error during research: " \o text

C7_StageFailureAborts ==
    entry \in Pipelines =>
        /\ scrapeCalls <= 1 /\ storeCalls <= 1 /\ addCalls <= 1
        /\ agentCalls <= 1 /\ gsCalls <= 1 /\ Len(threads) <= 1
        /\ StoreRaised =>
              /\ agentCalls = 0
              /\ gsCalls = 0
              /\ threads = <<>>
              /\ summary = None
              /\ pc \in {"except", "finally", "done", "crashed"}
              /\ pc # "except" => out = <<"Error during research: chromadb: add failed">>
        /\ AgentRaised =>
              /\ summary = None
              /\ pc # "except" => out = <<"Error during research: openai: request failed">>

C7_Witness ==
    /\ entry = "main"
    /\ pc = "done"
    /\ StoreRaised
    /\ cleanupCalls = 1
    /\ C7_Reported("chromadb: add failed")

\* scrape_urls has returned to its caller.
ScrapeReturned == scrapeCalls > 0 /\ pc # "scrape_loop"

\* C8: when scrape_urls has returned, it has fetched every URL and returned
\* one document per URL, the k-th with the k-th URL; while it runs, it has one
\* document per URL fetched so far.
C8_OneDocumentPerUrlInOrder ==
    /\ pc = "scrape_loop" =>
          /\ Len(results) = i
          /\ fetches = i
          /\ \A k \in 1..i : results[k].url = urls[k]
    /\ ScrapeReturned =>
          /\ fetches = Len(urls)
          /\ Len(documents) = Len(urls)
          /\ \A k \in 1..Len(urls) : documents[k].url = urls[k]

C8_Witness ==
    /\ ScrapeReturned
    /\ urls = <<AI_URL, AI_URL>>
    /\ Len(documents) = 2
    /\ documents[1].title = "Error"
    /\ documents[2].title = "Test Page"

\* The content of docs[k] as the prompt must hold it.
C9_Cut(c) == IF Len(c) <= 2000 THEN c ELSE SubSeq(c, 1, 2000)

\* The combined body of the first n documents.
RECURSIVE C9_Body(_, _)
C9_Body(docs, n) ==
    IF n = 0 THEN ""
    ELSE C9_Body(docs, n - 1)
         \o (IF n > 1 THEN "\n\n" ELSE "")
         \o "Source: " \o docs[n].title \o " (" \o docs[n].url \o ")\n"
         \o C9_Cut(docs[n].content)

\* C9: whenever generate_summary_from_documents has been called, the body it
\* passed on is the blocks of its documents in order, each content cut to its
\* first 2000 characters, two line breaks between blocks; it made one
\* generate_summary call per call of its own; and the user message posted to
\* the thread holds that body, before the closing line of the prompt.
C9_CombinedPrompt ==
    agentCalls > 0 =>
        /\ content = C9_Body(agentArg, Len(agentArg))
        /\ gsCalls = agentCalls
        /\ (thread # 0 /\ threads[thread].messages # <<>>) =>
              /\ threads[thread].messages[1].role = "user"
              /\ LET t == threads[thread].messages[1].text
                     f == "\n\nProvide a comprehensive summary that addresses the research query."
                 IN  /\ Len(t) > Len(content) + Len(f)
                     /\ SubSeq(t, Len(t) - Len(f) - Len(content) + 1, Len(t) - Len(f)) = content
                     /\ SubSeq(t, Len(t) - Len(f) + 1, Len(t)) = f

C9_Witness ==
    /\ agentCalls = 1
    /\ Len(agentArg) = 2
    /\ Len(agentArg[1].content) > 2000
    /\ Len(agentArg[2].content) <= 2000
    /\ thread # 0
    /\ Len(threads[thread].messages) = 1

\* No key is to be had: for the drivers none in the environment (for cli.main
\* after load_dotenv, so none in the .env file either), for a direct
\* construction none in the environment and none passed.
C10_KeyAbsent ==
    /\ envKey = None
    /\ entry = "cli" => dotenvKey = None
    /\ entry = "agent" => api_key # "sk-arg"
    /\ entry \in Pipelines \cup {"agent"}

\* C10: when no key is to be had, no URL is fetched, the store and the agent
\* are never called, no client and no persona is created and the assistant
\* service is never contacted; the drivers end having printed the error, the
\* constructor ends having raised its message.
C10_FailsFastWithoutKey ==
    C10_KeyAbsent =>
        /\ fetches = 0 /\ scrapeCalls = 0
        /\ storeCalls = 0 /\ addCalls = 0
        /\ agentCalls = 0 /\ gsCalls = 0
        /\ ~client /\ assistant = None
        /\ created = 0 /\ ~contacted /\ threads = <<>>
        /\ pc \in {"start", "new", "done"}
        /\ (pc = "done" /\ entry \in Pipelines) => out = <<KeyMissing>>
        /\ (pc = "done" /\ entry = "agent") =>
              exc = "OpenAI API key not found. Set OPENAI_API_KEY environment variable."

C10_Witness ==
    /\ entry = "agent"
    /\ envKey = None
    /\ pc = "done"
    /\ api_key = None
    /\ ~client
    /\ exc = "OpenAI API key not found. Set OPENAI_API_KEY environment variable."

\* C11: a step that calls add_documents with an empty sequence returns
\* normally to the caller's next statement, raises nothing, makes no call to
\* Collection.add and leaves the collection as it was.
C11_EmptyAddIsNoOp ==
    [][(storeCalls' = storeCalls + 1 /\ storeArg' = <<>>) =>
          /\ collection' = collection
          /\ DOMAIN collection' = DOMAIN collection
          /\ addCalls' = addCalls
          /\ exc' = exc
          /\ storeReturned'
          /\ pc' = "idle"]_vars

C11_Witness ==
    /\ entry = "store"
    /\ storeCalls = 2
    /\ storeArg = <<>>
    /\ storeReturned
    /\ addCalls = 1
    /\ Cardinality(DOMAIN collection) = 1
    /\ exc = None

\* C14: scrape_urls pauses once after every fetch but the last: while it
\* runs on n URLs, after k < n fetches it has paused k times; when it has
\* returned it has paused n - 1 times, and not at all for n = 0.
C14_PausesBetweenFetches ==
    /\ pc = "scrape_loop" =>
          /\ fetches < Len(urls) => pauses = fetches
          /\ fetches = Len(urls) => pauses = (IF Len(urls) = 0 THEN 0 ELSE Len(urls) - 1)
    /\ ScrapeReturned =>
          /\ Len(urls) = 0 => pauses = 0 /\ fetches = 0
          /\ Len(urls) = 1 => pauses = 0 /\ fetches = 1
          /\ Len(urls) > 1 => pauses = Len(urls) - 1 /\ fetches = Len(urls)

C14_Witness ==
    /\ ScrapeReturned
    /\ Len(urls) = 2
    /\ fetches = 2
    /\ pauses = 1

\* The user messages posted to a thread.
C13_UserMessages(th) == { m \in DOMAIN th.messages : th.messages[m].role = "user" }

\* C13: on one Agent, however many requests are made, one persona is created,
\* at construction, and it is the one the Agent retains and every job names;
\* there are never more threads than requests; every thread holds at most one
\* user message and one job; the request under way works on the newest
\* thread; and a request that got to start its job, or has returned, has
\* exactly one user message and one job on its thread.
C13_OnePersonaFreshThreads ==
    /\ created <= 1
    /\ assistant # None => created = 1 /\ assistant = "asst_1"
    /\ created = 1 => assistant = "asst_1"
    /\ gsCalls > 0 => assistant = "asst_1"
    /\ Len(threads) <= gsCalls
    /\ thread # 0 => thread = Len(threads)
    /\ \A k \in DOMAIN threads :
          /\ Cardinality(C13_UserMessages(threads[k])) <= 1
          /\ Len(threads[k].runs) <= 1
          /\ \A r \in DOMAIN threads[k].runs : threads[k].runs[r] = "asst_1"
          /\ threads[k].runs # <<>> => Cardinality(C13_UserMessages(threads[k])) = 1
    /\ (pc = "gs_wait" \/ Returned) =>
          /\ thread # 0
          /\ Cardinality(C13_UserMessages(threads[thread])) = 1
          /\ threads[thread].runs = <<"asst_1">>

C13_Witness ==
    /\ entry = "agent"
    /\ gsCalls = 2
    /\ Len(threads) = 2
    /\ thread = 2
    /\ Returned
    /\ created = 1
    /\ threads[1].runs = <<assistant>>
    /\ threads[2].runs = <<assistant>>
    /\ Cardinality(C13_UserMessages(threads[1])) = 1
    /\ Cardinality(C13_UserMessages(threads[2])) = 1

\* C12: a poll is made only when the status observed last is queued or
\* in_progress; a call returns a value only when the status observed last is
\* neither; while the status observed last is queued or in_progress the call
\* does nothing but poll (it returns nothing and is left only by an exception
\* of runs.retrieve), however many polls it has made; and once a status
\* outside the two has been observed the call ends: it returns, or, for
\* "completed", messages.list raises.
C12_PollsUntilTerminal ==
    /\ [][(pc = "gs_wait" /\ (polls' # polls \/ status' # status)) => Waiting(status)]_vars
    /\ [][(summary = None /\ summary' # None) =>
             (pc = "gs_wait" /\ ~Waiting(status) /\ status' = status)]_vars
    /\ [][(pc = "gs_wait" /\ Waiting(status)) =>
             /\ summary' = None
             /\ pc' = "gs_wait" \/ (pc' = Raise /\ exc' = "openai: request failed")]_vars
    /\ (pc = "gs_wait" /\ ~Waiting(status)) ~>
             (Returned \/ (status = "completed" /\ pc # "gs_wait"))

C12_Witness ==
    /\ Returned
    /\ polls = 1
    /\ status = "failed"
    /\ summary = "Error: Assistant run status is failed"

====
